---- MODULE Spec2Model ----
(***************************************************************************)
(* Model of @egomobile/azure-storage (src/src/blobs.ts): the resolution of *)
(* a connection name to client options through process.env, and the two    *)
(* factory builders that wire the resolved options into the storage SDK.   *)
(*                                                                         *)
(* Strings are sequences of one-character strings, so that trim() is       *)
(* computed.  A value that may be undefined (an unset environment          *)
(* variable, an omitted argument, NaN for a number) is a set with at most  *)
(* one element: {} is undefined, {v} is v.                                 *)
(***************************************************************************)
EXTENDS Naturals, Sequences, FiniteSets

VARIABLES env, last, sdk, factory, pc

vars == <<env, last, sdk, factory, pc>>

(***************************************************************************)
(* Bounds of the model.                                                    *)
(***************************************************************************)
\* the largest number of variables in the modelled environment
MaxEnv == 4

\* the largest number of SDK invocations the log holds when the exported
\* providers are called
MaxSdk == 4

\* the largest number of SDK invocations the log holds when the providers
\* of built factories are called
MaxFactorySdk == 2

(***************************************************************************)
(* Strings.                                                                *)
(***************************************************************************)
Undefined == {}

\* The characters String.prototype.trim strips: the WhiteSpace and the
\* LineTerminator code points of ECMAScript.  A character without an escape
\* in this notation is written by its code point, "U+00A0".
Whitespace ==
    { "\t", "U+000B", "\f", " ", "U+00A0", "U+FEFF",
      "U+1680", "U+2000", "U+2001", "U+2002", "U+2003", "U+2004", "U+2005",
      "U+2006", "U+2007", "U+2008", "U+2009", "U+200A", "U+202F", "U+205F",
      "U+3000",
      "\n", "\r", "U+2028", "U+2029" }

RECURSIVE TrimStart(_)
TrimStart(s) ==
    IF Len(s) > 0 /\ Head(s) \in Whitespace THEN TrimStart(Tail(s)) ELSE s

RECURSIVE TrimEnd(_)
TrimEnd(s) ==
    IF Len(s) > 0 /\ s[Len(s)] \in Whitespace
    THEN TrimEnd(SubSeq(s, 1, Len(s) - 1))
    ELSE s

\* String.prototype.trim
Trim(s) == TrimEnd(TrimStart(s))

\* x?.trim() of a value that may be undefined
OptTrim(x) == { Trim(s) : s \in x }

\* !x?.length : x is undefined or the empty string
NoLength(x) == \A s \in x : Len(s) = 0

\* parseInt of a string of decimal digits (no sign, no other character)
RECURSIVE ParseDigits(_)
ParseDigits(d) ==
    IF Len(d) = 0 THEN 0
    ELSE 10 * ParseDigits(SubSeq(d, 1, Len(d) - 1)) + d[Len(d)]

\* parseInt(x) where x is undefined or a string of digits: {} is NaN
ParseInt(x) == { ParseDigits(d) : d \in { s \in x : Len(s) > 0 } }

\* a number inside a template literal: its decimal digits
RECURSIVE NumberToString(_)
NumberToString(n) ==
    IF n < 10 THEN <<n>> ELSE NumberToString(n \div 10) \o <<n % 10>>

(***************************************************************************)
(* The environment: process.env as the sequence of its entries, in the     *)
(* order Object.keys enumerates them.  A key is the text before the        *)
(* digits, the digits, and the text after them.                            *)
(***************************************************************************)
Prefix == "AZURE_STORAGE_CONNECTION_"

Key(nr, suffix) == [prefix |-> Prefix, nr |-> nr, suffix |-> suffix]

\* Object.keys(process.env)
ObjectKeys(e) == [ i \in 1..Len(e) |-> e[i].key ]

\* process.env[k]
Lookup(e, k) == { e[i].value : i \in { j \in 1..Len(e) : e[j].key = k } }

\* r.test(k) for r = /^(AZURE_STORAGE_CONNECTION_)(\d+)$/
RTest(k) == k.prefix = Prefix /\ Len(k.nr) > 0 /\ k.suffix = ""

\* k.split('_')[3] of a key that passed r.test
NrPart(k) == k.nr

\* s[0] of an array: undefined when the array is empty
First(s) == IF Len(s) = 0 THEN Undefined ELSE {Head(s)}

(***************************************************************************)
(* Outcomes: a call returns a value or throws an error.                    *)
(***************************************************************************)
Returns(v) == [error |-> {}, value |-> {v}]

Throws(type, text, name) ==
    [error |-> {[type |-> type, text |-> text, name |-> name]}, value |-> {}]

ErrNoConnection(name) ==
    Throws("Error", "No azure storage connection ${name} found or defined", {name})

ErrConnectionNotFound(name) ==
    Throws("Error", "Azure storage connection ${name} not found", {name})

ErrNoContainer == Throws("Error", "No container defined", {})

ErrOptionsOrFunc ==
    Throws("TypeError", "optionsOrFunc must be a function or object", {})

Threw(o) == o.error # {}

ValueOf(o) == CHOOSE v \in o.value : TRUE

\* the last element of an array, where the code takes the first
Last(s) == IF Len(s) = 0 THEN Undefined ELSE {s[Len(s)]}

\* the bug of leaving out the filter on the value: any declaration is taken
GetAzureStorageConnectionNrFromEnvVar_AnyName(e, name) ==
    LET matching == SelectSeq(ObjectKeys(e), RTest)
        connectionNr == ParseInt({ NrPart(k) : k \in First(matching) })
    IN  IF connectionNr = {} THEN ErrNoConnection(name)
        ELSE Returns(CHOOSE n \in connectionNr : TRUE)

\* the bug of taking the last matching declaration instead of the first
GetAzureStorageConnectionNrFromEnvVar_LastMatch(e, name) ==
    LET HasName(k) == OptTrim(Lookup(e, k)) = {name}
        matching == SelectSeq(SelectSeq(ObjectKeys(e), RTest), HasName)
        connectionNr == ParseInt({ NrPart(k) : k \in Last(matching) })
    IN  IF connectionNr = {} THEN ErrNoConnection(name)
        ELSE Returns(CHOOSE n \in connectionNr : TRUE)

\* getAzureStorageConnectionNrFromEnvVar(name)
GetAzureStorageConnectionNrFromEnvVar(e, name) ==
    LET HasName(k) == OptTrim(Lookup(e, k)) = {name}
        matching == SelectSeq(SelectSeq(ObjectKeys(e), RTest), HasName)
        connectionNr == ParseInt({ NrPart(k) : k \in First(matching) })
    IN  IF connectionNr = {} THEN ErrNoConnection(name)
        ELSE Returns(CHOOSE n \in connectionNr : TRUE)

\* the bug of returning the URL as it is set, untrimmed
DefaultGetBlobStorageClientOptions_Untrimmed(e, name) ==
    LET nr == GetAzureStorageConnectionNrFromEnvVar(e, name)
    IN  IF Threw(nr) THEN nr
        ELSE LET raw == Lookup(e, Key(NumberToString(ValueOf(nr)), "_URL"))
             IN  IF NoLength(OptTrim(raw)) THEN ErrConnectionNotFound(name)
                 ELSE Returns([url |-> raw, container |-> Undefined])

\* the bug of testing the URL before it is trimmed: a blank URL passes
DefaultGetBlobStorageClientOptions_BlankPasses(e, name) ==
    LET nr == GetAzureStorageConnectionNrFromEnvVar(e, name)
    IN  IF Threw(nr) THEN nr
        ELSE LET raw == Lookup(e, Key(NumberToString(ValueOf(nr)), "_URL"))
             IN  IF NoLength(raw) THEN ErrConnectionNotFound(name)
                 ELSE Returns([url |-> OptTrim(raw), container |-> Undefined])

\* defaultGetBlobStorageClientOptions(name)
DefaultGetBlobStorageClientOptions(e, name) ==
    LET nr == GetAzureStorageConnectionNrFromEnvVar(e, name)
    IN  IF Threw(nr) THEN nr
        ELSE LET url == OptTrim(Lookup(e, Key(NumberToString(ValueOf(nr)), "_URL")))
             IN  IF NoLength(url) THEN ErrConnectionNotFound(name)
                 ELSE Returns([url |-> url, container |-> Undefined])

\* the bug of reading the variable first: the override only fills in
DefaultGetContainerClientOptions_EnvFirst(e, name, container) ==
    LET nr == GetAzureStorageConnectionNrFromEnvVar(e, name)
    IN  IF Threw(nr) THEN nr
        ELSE LET storageOpts == DefaultGetBlobStorageClientOptions(e, name)
                 custom == OptTrim(container)
                 fromEnv == OptTrim(Lookup(e,
                                Key(NumberToString(ValueOf(nr)), "_CONTAINER")))
                 effective == IF NoLength(fromEnv) THEN custom ELSE fromEnv
             IN  IF Threw(storageOpts) THEN storageOpts
                 ELSE IF NoLength(effective) THEN ErrNoContainer
                 ELSE Returns([url |-> ValueOf(storageOpts).url,
                               container |-> effective])

\* the bug of failing only when the variable is unset: an empty or blank
\* container passes
DefaultGetContainerClientOptions_BlankPasses(e, name, container) ==
    LET nr == GetAzureStorageConnectionNrFromEnvVar(e, name)
    IN  IF Threw(nr) THEN nr
        ELSE LET storageOpts == DefaultGetBlobStorageClientOptions(e, name)
                 custom == OptTrim(container)
                 fromEnv == OptTrim(Lookup(e,
                                Key(NumberToString(ValueOf(nr)), "_CONTAINER")))
                 effective == IF NoLength(custom) THEN fromEnv ELSE custom
             IN  IF Threw(storageOpts) THEN storageOpts
                 ELSE IF effective = Undefined THEN ErrNoContainer
                 ELSE Returns([url |-> ValueOf(storageOpts).url,
                               container |-> effective])

\* defaultGetContainerClientOptions(name, container)
DefaultGetContainerClientOptions(e, name, container) ==
    LET nr == GetAzureStorageConnectionNrFromEnvVar(e, name)
    IN  IF Threw(nr) THEN nr
        ELSE LET storageOpts == DefaultGetBlobStorageClientOptions(e, name)
                 custom == OptTrim(container)
                 fromEnv == OptTrim(Lookup(e,
                                Key(NumberToString(ValueOf(nr)), "_CONTAINER")))
                 effective == IF NoLength(custom) THEN fromEnv ELSE custom
             IN  IF Threw(storageOpts) THEN storageOpts
                 ELSE IF NoLength(effective) THEN ErrNoContainer
                 ELSE Returns([url |-> ValueOf(storageOpts).url,
                               container |-> effective])

(***************************************************************************)
(* The values handed to the factory builders: a value is its typeof and    *)
(* what it holds.  An object holds an options record (null holds none), a  *)
(* function holds its body and the value it closes over.                   *)
(***************************************************************************)
Obj(o) == [typeof |-> "object", data |-> {o}]

Null == [typeof |-> "object", data |-> {}]

Primitive(type) == [typeof |-> type, data |-> {}]

Fn(body, captured) ==
    [typeof |-> "function", data |-> {[body |-> body, captured |-> captured]}]

DefaultBlobFn == Fn("defaultGetBlobStorageClientOptions", {})

DefaultContainerFn == Fn("defaultGetContainerClientOptions", {})

\* a function of the caller that always returns the object o
ConstantFn(o) == Fn("() => o", {Obj(o)})

\* the object, if the call returned an options record
AsObject(o) == IF Threw(o) THEN o ELSE Returns(Obj(ValueOf(o)))

\* f(name, container) for a function value f
Apply(e, f, name, container) ==
    LET code == CHOOSE c \in f.data : TRUE
    IN  IF code.body = "defaultGetBlobStorageClientOptions"
        THEN AsObject(DefaultGetBlobStorageClientOptions(e, name))
        ELSE IF code.body = "defaultGetContainerClientOptions"
        THEN AsObject(DefaultGetContainerClientOptions(e, name, container))
        ELSE Returns(CHOOSE v \in code.captured : TRUE)

ErrDestructure == Throws("TypeError", "Cannot destructure property of null", {})

\* v.url and v.container of a value that is not null: a property that is not
\* there is undefined
UrlOf(v) == IF v.typeof = "object" THEN ValueOf([value |-> v.data]).url ELSE Undefined

ContainerOf(v) ==
    IF v.typeof = "object" THEN ValueOf([value |-> v.data]).container ELSE Undefined

(***************************************************************************)
(* The storage SDK, outside the repository: a client is the record of what *)
(* it was constructed from, and every invocation of the SDK is logged.     *)
(***************************************************************************)
\* BlobServiceClient.fromConnectionString(url)
FromConnectionString(url) ==
    [kind |-> "BlobServiceClient", connectionString |-> url, containerName |-> Undefined]

\* client.getContainerClient(container)
GetContainerClientOf(client, container) ==
    [kind |-> "ContainerClient", connectionString |-> client.connectionString,
     containerName |-> container]

\* one invocation of the SDK: the function called and its argument
Invocation(fn, arg) == [fn |-> fn, arg |-> arg]

\* what a provider function did: its outcome, and the invocations of the SDK
\* it made, in order
Did(outcome, invoked) == [outcome |-> outcome, invoked |-> invoked]

(***************************************************************************)
(* The factory builders and the provider functions they return.            *)
(***************************************************************************)
\* the function returned by createGetBlobServiceClientFactory: (name) => ...
BlobServiceClientProvider(e, getOptions, name) ==
    LET options == Apply(e, getOptions, name, Undefined)
    IN  IF Threw(options) THEN Did(options, <<>>)
        ELSE IF ValueOf(options) = Null THEN Did(ErrDestructure, <<>>)
        ELSE LET url == UrlOf(ValueOf(options))
             IN  Did(Returns(FromConnectionString(url)),
                     <<Invocation("BlobServiceClient.fromConnectionString", url)>>)

\* the bug of keeping the clients: when the log shows that a client of the
\* resolved url and container was constructed before, that client is
\* returned and the SDK is not invoked
ContainerClientProvider_Reused(e, getOptions, name, customerContainer) ==
    LET options == Apply(e, getOptions, name, customerContainer)
    IN  IF Threw(options) THEN Did(options, <<>>)
        ELSE IF ValueOf(options) = Null THEN Did(ErrDestructure, <<>>)
        ELSE LET url == UrlOf(ValueOf(options))
                 container == ContainerOf(ValueOf(options))
                 invoked ==
                     <<Invocation("BlobServiceClient.fromConnectionString", url),
                       Invocation("getContainerClient", container)>>
                 before == \E i \in 1..(Len(sdk) - 1) :
                               SubSeq(sdk, i, i + 1) = invoked
             IN  Did(Returns(GetContainerClientOf(FromConnectionString(url), container)),
                     IF before THEN <<>> ELSE invoked)

\* the function returned by createGetContainerClientFactory:
\* (name, customerContainer) => ...
ContainerClientProvider(e, getOptions, name, customerContainer) ==
    LET options == Apply(e, getOptions, name, customerContainer)
    IN  IF Threw(options) THEN Did(options, <<>>)
        ELSE IF ValueOf(options) = Null THEN Did(ErrDestructure, <<>>)
        ELSE LET url == UrlOf(ValueOf(options))
                 container == ContainerOf(ValueOf(options))
             IN  Did(Returns(GetContainerClientOf(FromConnectionString(url), container)),
                     <<Invocation("BlobServiceClient.fromConnectionString", url),
                       Invocation("getContainerClient", container)>>)

\* createGetBlobServiceClientFactory(optionsOrFunc): an omitted argument is
\* the default resolver
CreateGetBlobServiceClientFactory(optionsOrFunc) ==
    LET arg == IF optionsOrFunc = Undefined THEN DefaultBlobFn
               ELSE CHOOSE v \in optionsOrFunc : TRUE
        getOptions == IF arg.typeof = "function" THEN arg
                      ELSE Fn("() => optionsOrFunc", {arg})
    IN  IF getOptions.typeof # "function" THEN ErrOptionsOrFunc
        ELSE Returns([flavor |-> "service", getOptions |-> getOptions])

\* the bug of using the default resolver whenever the argument is no function
CreateGetContainerClientFactory_ObjectIgnored(optionsOrFunc) ==
    LET arg == IF optionsOrFunc = Undefined THEN DefaultContainerFn
               ELSE CHOOSE v \in optionsOrFunc : TRUE
        getOptions == IF arg.typeof = "function" THEN arg ELSE DefaultContainerFn
    IN  IF getOptions.typeof # "function" THEN ErrOptionsOrFunc
        ELSE Returns([flavor |-> "container", getOptions |-> getOptions])

\* createGetContainerClientFactory(optionsOrFunc)
CreateGetContainerClientFactory(optionsOrFunc) ==
    LET arg == IF optionsOrFunc = Undefined THEN DefaultContainerFn
               ELSE CHOOSE v \in optionsOrFunc : TRUE
        getOptions == IF arg.typeof = "function" THEN arg
                      ELSE Fn("() => optionsOrFunc", {arg})
    IN  IF getOptions.typeof # "function" THEN ErrOptionsOrFunc
        ELSE Returns([flavor |-> "container", getOptions |-> getOptions])

\* a call of a provider function
CallProvider(e, provider, name, container) ==
    IF provider.flavor = "service"
    THEN BlobServiceClientProvider(e, provider.getOptions, name)
    ELSE ContainerClientProvider(e, provider.getOptions, name, container)

\* export const getBlobServiceClient
GetBlobServiceClient == ValueOf(CreateGetBlobServiceClientFactory({DefaultBlobFn}))

\* export const getContainerClient
GetContainerClient == ValueOf(CreateGetContainerClientFactory({DefaultContainerFn}))

(***************************************************************************)
(* The inputs of the model.                                                *)
(***************************************************************************)
\* the modelled keys: the variables of the connections 1 and 2, and a
\* declaration whose index is written with a leading zero
Keys ==
    { Key(n, s) : n \in {<<1>>, <<2>>}, s \in {"", "_URL", "_CONTAINER"} }
        \cup {Key(<<0, 2>>, "")}

\* the strings a variable is set to: exact, padded, whitespace-only and
\* empty texts, different for the two connections
ValuesOf(k) ==
    IF k = Key(<<1>>, "") THEN {<<"a">>, <<"\t">>}
    ELSE IF k = Key(<<2>>, "") THEN {<<"\t", "a", " ">>, <<>>}
    ELSE IF k = Key(<<0, 2>>, "") THEN {<<"a">>}
    ELSE IF k = Key(<<1>>, "_URL") THEN {<<"u">>, <<"U+00A0">>}
    ELSE IF k = Key(<<2>>, "_URL") THEN {<<" ", "v", "\n">>, <<>>}
    ELSE IF k = Key(<<1>>, "_CONTAINER") THEN {<<"c">>, <<" ">>}
    ELSE IF k = Key(<<2>>, "_CONTAINER") THEN {<<"\r", "e">>}
    ELSE {<<"a">>}

\* the connection names asked for: a declared one and the empty one
Names == {<<"a">>, <<>>}

\* the container argument: omitted, empty, blank, or a name to trim
Containers == {Undefined, {<<>>}, {<<"U+3000">>}, {<<"d", "\n">>}}

(***************************************************************************)
(* State: env is process.env, last the most recent call and its outcome,   *)
(* sdk the log of the invocations of the SDK made so far, factory the      *)
(* provider built last, pc whether a call has just returned.               *)
(***************************************************************************)
NoOutcome == [error |-> {}, value |-> {}]

NoCall ==
    [op |-> "none", name |-> {}, container |-> {}, outcome |-> NoOutcome,
     before |-> <<>>]

\* a call and its outcome; before is the log as it was when the call began
Called(op, name, container, outcome) ==
    [op |-> op, name |-> {name}, container |-> container, outcome |-> outcome,
     before |-> sdk]

HasKey(e, k) == \E i \in 1..Len(e) : e[i].key = k

\* process.env[k] = v : an existing variable keeps its place
Assign(e, k, v) ==
    IF HasKey(e, k)
    THEN [ i \in 1..Len(e) |-> IF e[i].key = k THEN [key |-> k, value |-> v] ELSE e[i] ]
    ELSE Append(e, [key |-> k, value |-> v])

\* delete process.env[k]
Remove(e, k) == LET Other(x) == x.key # k IN SelectSeq(e, Other)

Init ==
    /\ env = <<>>
    /\ last = NoCall
    /\ sdk = <<>>
    /\ factory = {}
    /\ pc = "ready"

SetEnv(k, v) ==
    /\ HasKey(env, k) \/ Len(env) < MaxEnv
    /\ env' = Assign(env, k, v)
    /\ last' = NoCall
    /\ UNCHANGED <<sdk, factory, pc>>

DeleteEnv(k) ==
    /\ HasKey(env, k)
    /\ env' = Remove(env, k)
    /\ last' = NoCall
    /\ UNCHANGED <<sdk, factory, pc>>

CallDefaultGetBlobStorageClientOptions(name) ==
    /\ last' = Called("defaultGetBlobStorageClientOptions", name, Undefined,
                      DefaultGetBlobStorageClientOptions(env, name))
    /\ UNCHANGED <<env, sdk, factory, pc>>

CallDefaultGetContainerClientOptions(name, container) ==
    /\ last' = Called("defaultGetContainerClientOptions", name, container,
                      DefaultGetContainerClientOptions(env, name, container))
    /\ UNCHANGED <<env, sdk, factory, pc>>

Next ==
    \/ \E k \in Keys : \E v \in ValuesOf(k) : SetEnv(k, v)
    \/ \E k \in Keys : DeleteEnv(k)
    \/ \E name \in Names : CallDefaultGetBlobStorageClientOptions(name)
    \/ \E name \in Names, container \in Containers :
           CallDefaultGetContainerClientOptions(name, container)

Spec == Init /\ [][Next]_vars

(***************************************************************************)
(* The factory builders: a factory is built from an options source and     *)
(* then called.  The environment holds the variables the README names.     *)
(***************************************************************************)
\* the variables of the README, and the declaration of connection 1
ReadmeKeys ==
    {Key(<<1>>, "_NAME"), Key(<<1>>, "_CONTAINER"), Key(<<1>>, "_URL"), Key(<<1>>, "")}

\* the static options objects
StaticOptions ==
    {[url |-> {<<"s">>}, container |-> {<<"k">>}],
     [url |-> {<<"t">>}, container |-> {<<"m">>}]}

\* the argument of a factory builder: omitted, a function that always
\* returns a static object, the static object itself, or a value that is
\* neither a function nor an options object
Sources ==
    {Undefined}
        \cup { {ConstantFn(o)} : o \in StaticOptions }
        \cup { {Obj(o)} : o \in StaticOptions }
        \cup {{Null}, {Primitive("number")}, {Primitive("string")}}

Built(flavor, source, created) ==
    [flavor |-> flavor, source |-> source, created |-> created]

CallCreateGetBlobServiceClientFactory(source) ==
    /\ factory' = {Built("service", source, CreateGetBlobServiceClientFactory(source))}
    /\ last' = NoCall
    /\ UNCHANGED <<env, sdk, pc>>

CallCreateGetContainerClientFactory(source) ==
    /\ factory' = {Built("container", source, CreateGetContainerClientFactory(source))}
    /\ last' = NoCall
    /\ UNCHANGED <<env, sdk, pc>>

\* a call of the provider function the last builder returned; the provider
\* of a service client takes the name alone
CallFactory(name, container) ==
    /\ \E f \in factory :
          /\ ~Threw(f.created)
          /\ f.flavor = "service" => container = Undefined
          /\ LET did == CallProvider(env, ValueOf(f.created), name, container)
             IN  /\ Len(sdk) + Len(did.invoked) <= MaxFactorySdk
                 /\ last' = Called("factory", name, container, did.outcome)
                 /\ sdk' = sdk \o did.invoked
    /\ UNCHANGED <<env, factory, pc>>

NextFactory ==
    \/ \E k \in ReadmeKeys : \E v \in ValuesOf(k) : SetEnv(k, v)
    \/ \E k \in ReadmeKeys : DeleteEnv(k)
    \/ \E source \in Sources : CallCreateGetBlobServiceClientFactory(source)
    \/ \E source \in Sources : CallCreateGetContainerClientFactory(source)
    \/ \E name \in Names, container \in Containers : CallFactory(name, container)

SpecFactory == Init /\ [][NextFactory]_vars

(***************************************************************************)
(* The two exported providers, called between changes of the environment.  *)
(* A call returns to its caller (pc = "returned"), who goes on to change   *)
(* the environment and to make further calls.                              *)
(***************************************************************************)
ChangeEnv(k, v) ==
    /\ pc = "ready"
    /\ HasKey(env, k) \/ Len(env) < MaxEnv
    /\ env' = Assign(env, k, v)
    /\ UNCHANGED <<last, sdk, factory, pc>>

UnsetEnv(k) ==
    /\ pc = "ready"
    /\ HasKey(env, k)
    /\ env' = Remove(env, k)
    /\ UNCHANGED <<last, sdk, factory, pc>>

CallGetBlobServiceClient(name) ==
    /\ pc = "ready"
    /\ LET did == CallProvider(env, GetBlobServiceClient, name, Undefined)
       IN  /\ Len(sdk) + Len(did.invoked) <= MaxSdk
           /\ last' = Called("getBlobServiceClient", name, Undefined, did.outcome)
           /\ sdk' = sdk \o did.invoked
    /\ pc' = "returned"
    /\ UNCHANGED <<env, factory>>

CallGetContainerClient(name, container) ==
    /\ pc = "ready"
    /\ LET did == CallProvider(env, GetContainerClient, name, container)
       IN  /\ Len(sdk) + Len(did.invoked) <= MaxSdk
           /\ last' = Called("getContainerClient", name, container, did.outcome)
           /\ sdk' = sdk \o did.invoked
    /\ pc' = "returned"
    /\ UNCHANGED <<env, factory>>

Resume ==
    /\ pc = "returned"
    /\ pc' = "ready"
    /\ UNCHANGED <<env, last, sdk, factory>>

NextProviders ==
    \/ \E k \in ReadmeKeys : \E v \in ValuesOf(k) : ChangeEnv(k, v)
    \/ \E k \in ReadmeKeys : UnsetEnv(k)
    \/ \E name \in Names : CallGetBlobServiceClient(name)
    \/ \E name \in Names, container \in Containers :
           CallGetContainerClient(name, container)
    \/ Resume

SpecProviders == Init /\ [][NextProviders]_vars

(***************************************************************************)
(* Vocabulary of the properties.                                           *)
(***************************************************************************)
SvcOptions == "defaultGetBlobStorageClientOptions"

CtOptions == "defaultGetContainerClientOptions"

\* the name the most recent call asked for
AskedName == CHOOSE n \in last.name : TRUE

\* a key of the form AZURE_STORAGE_CONNECTION_<digits>
DeclarationKey(k) == k.prefix = Prefix /\ k.suffix = "" /\ k.nr # <<>>

\* entry i declares name: its trimmed value is name
Declares(e, i, name) == DeclarationKey(e[i].key) /\ Trim(e[i].value) = name

\* the first declaration of name in enumeration order (none, or one)
Selected(e, name) ==
    { i \in 1..Len(e) :
        Declares(e, i, name) /\ \A j \in 1..(i - 1) : ~Declares(e, j, name) }

\* the digits of an index as a number is written: without leading zeros
RECURSIVE Canonical(_)
Canonical(d) == IF Len(d) > 1 /\ Head(d) = 0 THEN Canonical(Tail(d)) ELSE d

\* unset, empty or whitespace-only
Blank(x) == \A s \in x : Trim(s) = <<>>

\* the variables that go with the declaration at entry i
UrlVar(e, i) == Lookup(e, Key(Canonical(e[i].key.nr), "_URL"))

ContainerVar(e, i) == Lookup(e, Key(Canonical(e[i].key.nr), "_CONTAINER"))

\* the call failed with a connection-not-found error that carries name
ConnectionNotFound(o, name) ==
    /\ o.value = {}
    /\ \E err \in o.error :
          /\ err.name = {name}
          /\ err.text \in {"No azure storage connection ${name} found or defined",
                           "Azure storage connection ${name} not found"}

\* the call failed with the container-not-defined error, which carries no name
ContainerNotDefined(o) ==
    /\ o.value = {}
    /\ \E err \in o.error : err.name = {} /\ err.text = "No container defined"

OptionsRecord(url, container) == Returns([url |-> {url}, container |-> container])

\* several declarations of name
Several(e, name) ==
    \E i, j \in 1..Len(e) : i # j /\ Declares(e, i, name) /\ Declares(e, j, name)

\* the client the SDK constructs from the options o
ClientFrom(flavor, o) ==
    IF flavor = "service" THEN FromConnectionString(o.url)
    ELSE GetContainerClientOf(FromConnectionString(o.url), o.container)

\* the outcome of the factory builder of a flavor
BuiltFrom(flavor, source) ==
    IF flavor = "service" THEN CreateGetBlobServiceClientFactory(source)
    ELSE CreateGetContainerClientFactory(source)

\* a value that is neither a function nor an options object
InvalidSource(source) ==
    \E v \in source : v.typeof \notin {"function", "object"} \/ v = Null

\* the environment holds the three variables the README names, and no other
ReadmeEnv(e, name, container, url) ==
    /\ Len(e) = 3
    /\ Lookup(e, Key(<<1>>, "_NAME")) = {name}
    /\ Lookup(e, Key(<<1>>, "_CONTAINER")) = {container}
    /\ Lookup(e, Key(<<1>>, "_URL")) = {url}

\* the outcome of a provider that resolves name in the environment e now
FreshOutcome(e, op, name, container) ==
    IF Selected(e, name) = {} THEN ErrNoConnection(name)
    ELSE LET i == CHOOSE j \in Selected(e, name) : TRUE
             url == OptTrim(UrlVar(e, i))
             effective == IF Blank(container) THEN OptTrim(ContainerVar(e, i))
                          ELSE OptTrim(container)
         IN  IF Blank(url) THEN ErrConnectionNotFound(name)
             ELSE IF op = "getBlobServiceClient"
                  THEN Returns(FromConnectionString(url))
             ELSE IF Blank(effective) THEN ErrNoContainer
             ELSE Returns(GetContainerClientOf(FromConnectionString(url), effective))

\* the invocations of the SDK that construct the client an outcome holds:
\* none for a failure
Construction(o) ==
    IF Threw(o) THEN <<>>
    ELSE LET client == ValueOf(o)
             service == <<Invocation("BlobServiceClient.fromConnectionString",
                                     client.connectionString)>>
         IN  IF client.kind = "BlobServiceClient" THEN service
             ELSE Append(service, Invocation("getContainerClient", client.containerName))

(***************************************************************************)
(* C1 as claimed: for every index such that AZURE_STORAGE_CONNECTION_      *)
(* <index> is set to the name asked for and AZURE_STORAGE_CONNECTION_      *)
(* <index>_URL is set to U, the service-level resolution returns {url: U}. *)
(* (U a non-blank text, and texts compared without the whitespace around   *)
(* them.)                                                                  *)
(***************************************************************************)
C1_AsClaimed ==
    last.op = SvcOptions =>
        \A i \in 1..Len(env) :
            \A U \in Lookup(env, Key(env[i].key.nr, "_URL")) :
                (Declares(env, i, AskedName) /\ Trim(U) # <<>>)
                    => last.outcome = OptionsRecord(Trim(U), Undefined)

(***************************************************************************)
(* C1 as amended: when the first declaration key whose trimmed value is    *)
(* the name asked for has index n (its digits read as a number), and       *)
(* AZURE_STORAGE_CONNECTION_<n>_URL is set to a non-blank U, service-level *)
(* resolution returns {url: trim(U)}.                                      *)
(***************************************************************************)
C1_FirstDeclarationUrl ==
    last.op = SvcOptions =>
        \A i \in Selected(env, AskedName) :
            \A U \in UrlVar(env, i) :
                Trim(U) # <<>> => last.outcome = OptionsRecord(Trim(U), Undefined)

\* the resolution went through a declaration written with a leading zero,
\* ahead of a second declaration of the same name, to a padded URL
C1_Witness ==
    /\ last.op = SvcOptions
    /\ AskedName # <<>>
    /\ \E i \in Selected(env, AskedName) :
          /\ env[i].key.nr # Canonical(env[i].key.nr)
          /\ \E j \in (i + 1)..Len(env) : Declares(env, j, AskedName)
          /\ \E U \in UrlVar(env, i) : Trim(U) # <<>> /\ Trim(U) # U
    /\ ~Threw(last.outcome)

(***************************************************************************)
(* C2: when no key AZURE_STORAGE_CONNECTION_<digits> has a trimmed value   *)
(* equal to the name asked for, the service-level and the container-level  *)
(* resolution fail with a connection-not-found error carrying the name.    *)
(***************************************************************************)
C2_UndeclaredNameNotFound ==
    (last.op \in {SvcOptions, CtOptions}
        /\ \A i \in 1..Len(env) : ~Declares(env, i, AskedName))
            => ConnectionNotFound(last.outcome, AskedName)

\* a container-level call with an override, for a name no declaration has,
\* in an environment that declares another name and has a URL and a container
C2_Witness ==
    /\ last.op = CtOptions
    /\ ~Blank(last.container)
    /\ AskedName # <<>>
    /\ \A i \in 1..Len(env) : ~Declares(env, i, AskedName)
    /\ \E i \in 1..Len(env) : DeclarationKey(env[i].key)
    /\ \E i \in 1..Len(env) : env[i].key.suffix = "_URL" /\ ~Blank({env[i].value})
    /\ ConnectionNotFound(last.outcome, AskedName)

(***************************************************************************)
(* C3 as claimed: when some declaration key AZURE_STORAGE_CONNECTION_      *)
(* <index> has the name asked for as its value and                         *)
(* AZURE_STORAGE_CONNECTION_<index>_URL is unset, empty or blank, the      *)
(* resolution fails with a connection-not-found error carrying the name.   *)
(* (The index written without leading zeros, the name non-empty.)          *)
(***************************************************************************)
C3_AsClaimed ==
    (last.op \in {SvcOptions, CtOptions}
        /\ AskedName # <<>>
        /\ \E i \in 1..Len(env) :
              /\ Declares(env, i, AskedName)
              /\ env[i].key.nr = Canonical(env[i].key.nr)
              /\ Blank(Lookup(env, Key(env[i].key.nr, "_URL"))))
            => ConnectionNotFound(last.outcome, AskedName)

(***************************************************************************)
(* C3 as amended: when the first declaration key whose trimmed value is    *)
(* the name asked for has index n (its digits read as a number) and        *)
(* AZURE_STORAGE_CONNECTION_<n>_URL is unset, empty or blank, the          *)
(* service-level and the container-level resolution fail with a            *)
(* connection-not-found error carrying the name, whatever the container    *)
(* override and the _CONTAINER variable are.                               *)
(***************************************************************************)
C3_SelectedUrlBlankNotFound ==
    (last.op \in {SvcOptions, CtOptions}
        /\ \E i \in Selected(env, AskedName) : Blank(UrlVar(env, i)))
            => ConnectionNotFound(last.outcome, AskedName)

\* a container-level call with an override, the selected declaration has a
\* container variable and a whitespace-only URL
C3_Witness ==
    /\ last.op = CtOptions
    /\ ~Blank(last.container)
    /\ \E i \in Selected(env, AskedName) :
          /\ UrlVar(env, i) # {} /\ Blank(UrlVar(env, i))
          /\ ~Blank(ContainerVar(env, i))
    /\ ConnectionNotFound(last.outcome, AskedName)

(***************************************************************************)
(* C4 as claimed: in container-level resolution where the declaration      *)
(* index resolves and its _CONTAINER variable is set to C_env, an override *)
(* that is non-empty after trimming is the returned container, and not     *)
(* C_env; with no override, or an empty or blank one, the returned         *)
(* container is C_env.  (Texts compared without the whitespace around      *)
(* them.)                                                                  *)
(***************************************************************************)
C4_AsClaimed ==
    last.op = CtOptions =>
        \A i \in Selected(env, AskedName) :
            \A Cenv \in ContainerVar(env, i) :
                /\ ~Threw(last.outcome)
                /\ IF Blank(last.container)
                   THEN ValueOf(last.outcome).container = {Trim(Cenv)}
                   ELSE /\ ValueOf(last.outcome).container = OptTrim(last.container)
                        /\ ValueOf(last.outcome).container # {Trim(Cenv)}

(***************************************************************************)
(* C4 as amended: in container-level resolution where the declaration      *)
(* index resolves, its _URL variable is non-blank and its _CONTAINER       *)
(* variable is set to C_env: an override that is non-empty after trimming  *)
(* is returned, trimmed, as the container, whatever C_env is; with no      *)
(* override, or an empty or blank one, the returned container is C_env     *)
(* trimmed, provided that is non-empty.                                    *)
(***************************************************************************)
C4_OverrideBeforeEnvContainer ==
    last.op = CtOptions =>
        \A i \in Selected(env, AskedName) :
            \A U \in UrlVar(env, i), Cenv \in ContainerVar(env, i) :
                Trim(U) # <<>> =>
                    IF ~Blank(last.container)
                    THEN last.outcome = OptionsRecord(Trim(U), OptTrim(last.container))
                    ELSE Trim(Cenv) # <<>>
                            => last.outcome = OptionsRecord(Trim(U), {Trim(Cenv)})

\* an override was passed although _CONTAINER is set to another name, and
\* the override was returned
C4_Witness ==
    /\ last.op = CtOptions
    /\ ~Blank(last.container)
    /\ \E i \in Selected(env, AskedName) :
          /\ ~Blank(UrlVar(env, i))
          /\ ~Blank(ContainerVar(env, i))
          /\ OptTrim(ContainerVar(env, i)) # OptTrim(last.container)
    /\ ~Threw(last.outcome)
    /\ ValueOf(last.outcome).container = OptTrim(last.container)

(***************************************************************************)
(* C5 as claimed: in container-level resolution where the declaration      *)
(* index resolves, with neither a non-blank override nor a non-empty       *)
(* _CONTAINER variable, resolution fails with the container-not-defined    *)
(* error, which does not name the connection.                              *)
(***************************************************************************)
C5_AsClaimed ==
    (last.op = CtOptions
        /\ Blank(last.container)
        /\ \E i \in Selected(env, AskedName) : Blank(ContainerVar(env, i)))
            => ContainerNotDefined(last.outcome)

(***************************************************************************)
(* C5 as amended: in container-level resolution where the declaration      *)
(* index resolves and its _URL variable is non-blank, with neither a       *)
(* non-blank override nor a non-blank _CONTAINER variable, resolution      *)
(* fails with the container-not-defined error, which does not name the     *)
(* connection, and returns no options record.                              *)
(***************************************************************************)
C5_NoContainerDefined ==
    (last.op = CtOptions
        /\ Blank(last.container)
        /\ \E i \in Selected(env, AskedName) :
              ~Blank(UrlVar(env, i)) /\ Blank(ContainerVar(env, i)))
            => ContainerNotDefined(last.outcome)

\* a blank override and a whitespace-only _CONTAINER, the URL resolved
C5_Witness ==
    /\ last.op = CtOptions
    /\ last.container # {} /\ Blank(last.container)
    /\ \E i \in Selected(env, AskedName) :
          /\ ~Blank(UrlVar(env, i))
          /\ ContainerVar(env, i) # {} /\ Blank(ContainerVar(env, i))
    /\ ContainerNotDefined(last.outcome)

(***************************************************************************)
(* C10: when several declaration keys have a trimmed value equal to the    *)
(* name asked for, the first in enumeration order is selected, and the     *)
(* outcome is read off that declaration's index alone: its _URL and, for   *)
(* the container-level resolution without an override, its _CONTAINER;     *)
(* a later declaration of the name is not consulted, also when the first   *)
(* one's _URL or _CONTAINER is missing.                                    *)
(***************************************************************************)
C10_FirstDeclarationWins ==
    (last.op \in {SvcOptions, CtOptions} /\ Several(env, AskedName)) =>
        \A i \in Selected(env, AskedName) :
            LET url == OptTrim(UrlVar(env, i))
                container == IF Blank(last.container)
                             THEN OptTrim(ContainerVar(env, i))
                             ELSE OptTrim(last.container)
            IN  IF Blank(url) THEN ConnectionNotFound(last.outcome, AskedName)
                ELSE IF last.op = SvcOptions
                     THEN last.outcome = Returns([url |-> url, container |-> Undefined])
                ELSE IF Blank(container) THEN ContainerNotDefined(last.outcome)
                ELSE last.outcome = Returns([url |-> url, container |-> container])

\* two declarations of the name; the first has a URL and no container, the
\* second a container: the container-level call without override fails
C10_Witness ==
    /\ last.op = CtOptions
    /\ last.container = Undefined
    /\ \E i \in Selected(env, AskedName) :
          /\ ~Blank(UrlVar(env, i))
          /\ ContainerVar(env, i) = {}
          /\ \E j \in (i + 1)..Len(env) :
                Declares(env, j, AskedName) /\ ~Blank(ContainerVar(env, j))
    /\ ContainerNotDefined(last.outcome)

(***************************************************************************)
(* C6: a factory built from a static options object O behaves, on every    *)
(* call, as a factory built from a function that always returns O: the     *)
(* SDK client is constructed from O's url (and container), whatever the    *)
(* name, the container override and the environment are.                   *)
(***************************************************************************)
C6_StaticObjectAsConstantFunction ==
    last.op = "factory" =>
        \A f \in factory, o \in StaticOptions :
            f.source \in {{Obj(o)}, {ConstantFn(o)}} =>
                /\ last.outcome = Returns(ClientFrom(f.flavor, o))
                /\ last.outcome =
                      CallProvider(env, ValueOf(BuiltFrom(f.flavor, {ConstantFn(o)})),
                                   AskedName, last.container).outcome

\* a container factory built from a static object is called with a name the
\* environment declares, with a URL and a container, and with an override
C6_Witness ==
    /\ last.op = "factory"
    /\ ~Blank(last.container)
    /\ \E i \in Selected(env, AskedName) :
          ~Blank(UrlVar(env, i)) /\ ~Blank(ContainerVar(env, i))
    /\ \E f \in factory, o \in StaticOptions :
          /\ f.flavor = "container"
          /\ f.source = {Obj(o)}
          /\ last.outcome = Returns(ClientFrom("container", o))

(***************************************************************************)
(* C7: a factory builder called with an argument that is neither a         *)
(* function nor an options object (a number, a string, null) fails at once *)
(* with the TypeError 'optionsOrFunc must be a function or object' and     *)
(* returns no provider.                                                    *)
(***************************************************************************)
C7_InvalidSourceRejected ==
    \A f \in factory : InvalidSource(f.source) => f.created = ErrOptionsOrFunc

(***************************************************************************)
(* C8: with the environment the README sets up                             *)
(* (AZURE_STORAGE_CONNECTION_1_NAME the connection name,                   *)
(* AZURE_STORAGE_CONNECTION_1_CONTAINER the container,                     *)
(* AZURE_STORAGE_CONNECTION_1_URL the URL, nothing else),                  *)
(* getBlobServiceClient and getContainerClient of that name return a       *)
(* client of that URL (and container).                                     *)
(***************************************************************************)
C8_ReadmeSetupResolves ==
    (pc = "returned"
        /\ last.name = {<<"a">>}
        /\ last.container = Undefined
        /\ ReadmeEnv(env, <<"a">>, <<"c">>, <<"u">>))
            => last.outcome =
                  Returns(IF last.op = "getBlobServiceClient"
                          THEN FromConnectionString({<<"u">>})
                          ELSE GetContainerClientOf(FromConnectionString({<<"u">>}),
                                                    {<<"c">>}))

(***************************************************************************)
(* C9: nothing is cached between calls.  Whatever calls were made before   *)
(* and however the environment changed since, the outcome of a call of     *)
(* getBlobServiceClient or getContainerClient is the one a resolution of   *)
(* its arguments in the environment of that moment gives, and the call     *)
(* performs its own construction: a call that returns a client has         *)
(* appended to the log of SDK invocations, as it was when the call began,  *)
(* the construction of that client from the url (and container) resolved   *)
(* by this call, also when the same construction is in the log already; a  *)
(* call that fails has invoked nothing.                                    *)
(***************************************************************************)
C9_NothingCached ==
    pc = "returned" =>
        LET fresh == FreshOutcome(env, last.op, AskedName, last.container)
        IN  /\ last.outcome = fresh
            /\ sdk = last.before \o Construction(fresh)

\* a call of getContainerClient returns a client whose construction, from
\* the same url and container, was in the log already when the call began;
\* the log has grown by the construction this call made itself
C9_Witness ==
    /\ pc = "returned"
    /\ last.op = "getContainerClient"
    /\ ~Threw(last.outcome)
    /\ last.before = Construction(last.outcome)
    /\ sdk = last.before \o Construction(last.outcome)

====
